---- MODULE Spec2Model ----
(***************************************************************************)
(* Swipe session engine of Swpify, in its two variants:                    *)
(*   "file"    : src/swipify_app.py, state persisted in swpify_state.json  *)
(*   "session" : src/swpify_app.py,  state kept in st.session_state        *)
(* One behaviour follows one of the two programs (variable `variant`).     *)
(* Every action is one run of the Streamlit script with one trigger.       *)
(***************************************************************************)
EXTENDS Integers, Sequences, FiniteSets, TLC

(* ------------------------------ bounds -------------------------------- *)
NumIds == 3                      \* track identifiers the server may list (session variant)
FileIds == 2                     \* track identifiers the server may list (file variant)
Ids == 1..NumIds
NumTimes == 1                    \* number of distinct values now_iso() returns
Times == 1..NumTimes
MaxLibrary == 120                \* Liked Songs of the server when the fetch is run on its own
MaxPlaylists == 101              \* playlists the server lists when ensure_playlist is run on its own

(* -------------------------- program constants ------------------------- *)
PAGE_SIZE == 50
PlaylistsLimit == 50             \* sp.current_user_playlists(limit=50)
max_tries == 5                   \* sp_call(fn, *, max_tries=5)
FirstDelay == 1                  \* delay = 1.0
MaxDelay == 16                   \* delay = min(delay * 2, 16)
DEFAULT_KEEPERS_PLAYLIST_NAME == "Keepers"
DEFAULT_FAVOURITES_PLAYLIST_NAME == "Favourites"
OtherName == "Mix"               \* a playlist name the user may type instead
None == 0                        \* Python None for a playlist id
Me == "me"                       \* sp.current_user()["id"]

(* ------------------------------ helpers ------------------------------- *)
Min(a, b) == IF a < b THEN a ELSE b

InSeq(x, s) == \E i \in 1..Len(s) : s[i] = x

\* mutant of ListRemove: the removal is left out
ListRemove_Nothing(s, x) == s

\* list.remove(x): deletes the first occurrence of x
ListRemove(s, x) ==
  IF ~InSeq(x, s) THEN s
  ELSE LET k == CHOOSE i \in 1..Len(s) : s[i] = x /\ \A j \in 1..(i-1) : s[j] # x
       IN SubSeq(s, 1, k-1) \o SubSeq(s, k+1, Len(s))

\* dict[k] = v
DictPut(d, k, v) == [x \in (DOMAIN d) \cup {k} |-> IF x = k THEN v ELSE d[x]]
\* del dict[k] / dict.pop(k, None)
DictDel(d, k) == [x \in (DOMAIN d) \ {k} |-> d[x]]
EmptyDict == [x \in {} |-> 0]

\* random.shuffle / the check of a duplicate-free list
NoDup(s) == \A i, j \in 1..Len(s) : i # j => s[i] # s[j]
Perms(s) == {p \in [1..Len(s) -> {s[i] : i \in 1..Len(s)}] :
               \A i \in 1..Len(s) : \E j \in 1..Len(s) : p[j] = s[i]}


(* ------------------------- text (str) helpers -------------------------- *)
\* A str is a sequence of one-character strings.
LowerChar(c) ==
  CASE c = "A" -> "a" [] c = "B" -> "b" [] c = "C" -> "c"
    [] c = "X" -> "x" [] c = "Y" -> "y" [] OTHER -> c
\* str.lower()
Lower(s) == [i \in 1..Len(s) |-> LowerChar(s[i])]
\* sub in s
Contains(sub, s) ==
  \E i \in 0..(Len(s) - Len(sub)) : SubSeq(s, i + 1, i + Len(sub)) = sub
\* s[:4]
Prefix4(s) == SubSeq(s, 1, Min(4, Len(s)))
RECURSIVE LStrip(_)
LStrip(s) == IF s # <<>> /\ Head(s) = " " THEN LStrip(Tail(s)) ELSE s
RECURSIVE RStrip(_)
RStrip(s) == IF s # <<>> /\ s[Len(s)] = " " THEN RStrip(SubSeq(s, 1, Len(s) - 1)) ELSE s
\* str.strip()
Strip(s) == RStrip(LStrip(s))
\* sep.join(parts)
RECURSIVE Join(_, _)
Join(sep, parts) ==
  IF parts = <<>> THEN <<>>
  ELSE IF Len(parts) = 1 THEN parts[1]
  ELSE parts[1] \o sep \o Join(sep, Tail(parts))

(* --------------------- the remote library (inputs) --------------------- *)
\* What sp.tracks / sp.track return for a track id: name, artist names, album name,
\* album release date.  Three kinds of track, repeated over the identifiers.
Meta(i) ==
  CASE i % 3 = 1 -> [name |-> <<"A", "b">>, artists |-> << <<"X">> >>,
                     album |-> <<"c">>, release_date |-> <<"2", "0", "2", "0", "-", "0", "1">>]
    [] i % 3 = 2 -> [name |-> <<"b">>, artists |-> << <<"x">>, <<"Y">> >>,
                     album |-> <<"A">>, release_date |-> <<"2", "0", "2", "1">>]
    [] OTHER     -> [name |-> <<"c">>, artists |-> <<>>,
                     album |-> <<>>, release_date |-> <<>>]

\* The filter settings a user may type (term, artist, year), each with the tracks
\* that sp.tracks() returns as null (deleted / region-restricted) during that build.
NoFilter == [term |-> <<>>, artist |-> <<>>, year |-> <<>>]
BuildInputs ==
  { [f |-> NoFilter, nulls |-> {}],
    [f |-> [term |-> <<"A">>, artist |-> <<>>, year |-> <<>>], nulls |-> {}],
    [f |-> [term |-> <<>>, artist |-> <<"x">>, year |-> <<"2", "0", "2", "0">>], nulls |-> {}],
    [f |-> [term |-> <<"b">>, artist |-> <<>>, year |-> <<" ", "2", "0", "2", "1">>],
     nulls |-> {1}] }

\* The Liked Songs the server lists: some of the identifiers, each once, in the
\* order of the server (here the order of the identifiers).
RECURSIVE SubSeqsFrom(_, _)
SubSeqsFrom(i, n) ==
  IF i > n THEN {<<>>}
  ELSE SubSeqsFrom(i + 1, n) \cup {<<i>> \o s : s \in SubSeqsFrom(i + 1, n)}
FileLibraries == SubSeqsFrom(1, FileIds)
SessLibraries == SubSeqsFrom(1, NumIds)

(* ------------------------- queue construction -------------------------- *)
\* sp.current_user_saved_tracks(limit=PAGE_SIZE, offset=offset) on a library `lib`
\* whose server reports `total`
SavedTracksPage(lib, total, offset) ==
  [items |-> SubSeq(lib, offset + 1, Min(offset + PAGE_SIZE, Len(lib))), total |-> total]

\* fetch_all_liked_ids of the file variant: the loop from `offset`, with `ids` so far
RECURSIVE FetchLoopFile(_, _, _, _)
FetchLoopFile(lib, total, offset, ids) ==
  LET batch == SavedTracksPage(lib, total, offset)
      items == batch.items
  IN IF items = <<>> THEN ids
     ELSE IF offset + Len(items) >= batch.total THEN ids \o items
     ELSE FetchLoopFile(lib, total, offset + Len(items), ids \o items)

\* fetch_all_liked_ids of the session variant: total = max(1, first batch's total)
RECURSIVE FetchLoopSession(_, _, _, _)
FetchLoopSession(lib, total, offset, ids) ==
  LET batch == SavedTracksPage(lib, total, offset)
      items == batch.items
      tot == IF total < 1 THEN 1 ELSE total
  IN IF items = <<>> THEN ids
     ELSE IF offset + Len(items) >= tot THEN ids \o items
     ELSE FetchLoopSession(lib, total, offset + Len(items), ids \o items)

fetch_all_liked_ids(v, lib) ==
  IF v = "file" THEN FetchLoopFile(lib, Len(lib), 0, <<>>)
  ELSE FetchLoopSession(lib, Len(lib), 0, <<>>)

ArtistsNames(tr) == Join(<<",", " ">>, tr.artists)

\* mutant of MatchesFile: one criterion that holds is enough
MatchesFile_AnyCriterion(tr, f) ==
  \/ (f.term # <<>> /\ (\/ Contains(Lower(f.term), Lower(tr.name))
                        \/ Contains(Lower(f.term), Lower(ArtistsNames(tr)))
                        \/ Contains(Lower(f.term), Lower(tr.album))))
  \/ (f.artist # <<>> /\ Contains(Lower(f.artist), Lower(ArtistsNames(tr))))
  \/ (f.year # <<>> /\ Prefix4(tr.release_date) = Strip(f.year))

\* the body of refill_queue's loop over one track (file variant)
MatchesFile(tr, f) ==
  LET name == Lower(tr.name)
      artists_names == ArtistsNames(tr)
      album == tr.album
      year == Prefix4(tr.release_date)
      term == Lower(f.term)
  IN /\ (f.term # <<>> =>
           \/ Contains(term, name)
           \/ Contains(term, Lower(artists_names))
           \/ Contains(term, Lower(album)))
     /\ (f.artist # <<>> => Contains(Lower(f.artist), Lower(artists_names)))
     /\ (f.year # <<>> => year = Strip(f.year))

\* the body of apply_filters's loop over one track (session variant);
\* term, artist, year are already stripped (and lowered)
MatchesSession(tr, term, artist, year) ==
  LET blob == Lower(Join(<<" ">>, <<tr.name, ArtistsNames(tr), tr.album>>))
  IN /\ (term # <<>> => Contains(term, blob))
     /\ (artist # <<>> => Contains(artist, Lower(ArtistsNames(tr))))
     /\ (year # <<>> => Prefix4(tr.release_date) = year)

\* refill_queue lines 176-198: the filter over the batches of sp.tracks()
FilterFile(ids, f, nulls) ==
  IF f.term # <<>> \/ f.artist # <<>> \/ f.year # <<>>
  THEN LET keep(t) == t \notin nulls /\ MatchesFile(Meta(t), f)
       IN SelectSeq(ids, keep)
  ELSE ids

apply_filters(ids, f, nulls) ==
  LET term == Lower(Strip(f.term))
      artist == Lower(Strip(f.artist))
      year == Strip(f.year)
      keep(t) == t \notin nulls /\ MatchesSession(Meta(t), term, artist, year)
  IN IF term = <<>> /\ artist = <<>> /\ year = <<>> THEN ids
     ELSE SelectSeq(ids, keep)

\* mutant of NotSeen: the dedup is left out
NotSeen_All(ids, ledger) == ids

\* the identifiers that survive the dedup against the Ledger
NotSeen(ids, ledger) ==
  LET fresh(t) == t \notin DOMAIN ledger IN SelectSeq(ids, fresh)

\* the queue a build computes before the optional shuffle
BuildList(v, lib, ledger, f, nulls) ==
  LET liked == NotSeen(fetch_all_liked_ids(v, lib), ledger)
  IN IF v = "file" THEN FilterFile(liked, f, nulls) ELSE apply_filters(liked, f, nulls)

\* random.shuffle: any permutation
Shuffled(shuffle, ids) == IF shuffle THEN Perms(ids) ELSE {ids}

(* ------------------------------ state --------------------------------- *)
VARIABLES
  variant,                   \* which program runs: "file" or "session"
  pc,                        \* "idle", or "built" inside the file variant's build request
  queue,                     \* state["queue"] / ss[QUEUE]
  seen,                      \* state["seen"]  / ss[SEEN] : id -> [action, ts]
  last_action,               \* state["last_action"] (file variant)
  LAST,                      \* ss[LAST], the undo stack (session variant)
  keepers_playlist_id,       \* state["keepers_playlist_id"] / ss[KEEPERS_ID]
  favourites_playlist_id,    \* state["favourites_playlist_id"] / ss[FAVS_ID]
  keepers_playlist_name,     \* state["keepers_playlist_name"] (file variant)
  favourites_playlist_name,  \* state["favourites_playlist_name"] (file variant)
  queue_built_total,         \* state["queue_built_total"] (file variant)
  stale,                     \* the script's own `state` dict while pc = "built"
  playlists,                 \* the remote playlists of the account
  members,                   \* their tracks: the pairs <<playlist id, track id>>
  op,                        \* the operation of the last run and its result
  calls,                     \* the remote calls that operation's handler issued
  proc                       \* a helper procedure run on its own, step by step

vars == <<variant, pc, queue, seen, last_action, LAST, keepers_playlist_id,
          favourites_playlist_id, keepers_playlist_name, favourites_playlist_name,
          queue_built_total, stale, playlists, members, op, calls, proc>>

NoAction == [track_id |-> 0, action |-> "none"]      \* last_action = None

\* The record of a run: the operation, the track it was about, its result.  An undo
\* also records the decision it reversed, whether the track was still in the queue
\* (the branch of line 463 / 377), and the operation of the run before it when that
\* one succeeded.
Op(name, tid, res) ==
  [name |-> name, tid |-> tid, res |-> res, undone |-> "none", present |-> FALSE,
   prev |-> ""]
Call(api, tid, pid) == [api |-> api, tid |-> tid, pid |-> pid]

(* --------------------------- remote playlists -------------------------- *)
\* Where a remote call of a handler may raise: nowhere, at sp.current_user(), at
\* sp.current_user_playlists(), at sp.user_playlist_create(), or at the handler's
\* own side-effect call (add / remove / re-add).
Fails == {"none", "user", "list", "create", "call"}

\* the first playlist of the listing with that name, owned by the caller; 0 if none
FindPlaylist(pls, name) ==
  LET hits == {i \in 1..Len(pls) : pls[i].name = name /\ pls[i].owner = Me}
  IN IF hits = {} THEN 0 ELSE CHOOSE i \in hits : \A j \in hits : i <= j

\* the pages of the listing the `while results` loop reads: up to the page of the
\* first hit, or all of them (one page when the listing is empty)
PagesOf(n) == IF n = 0 THEN 1 ELSE (n + PlaylistsLimit - 1) \div PlaylistsLimit
PagesRead(pls, name) ==
  IF FindPlaylist(pls, name) # 0 THEN PagesOf(FindPlaylist(pls, name)) ELSE PagesOf(Len(pls))
\* sp.current_user_playlists(limit=50), then sp.next(results) for every further page
ListingCalls(pages) ==
  <<Call("current_user_playlists", 0, 0)>> \o [i \in 1..(pages - 1) |-> Call("next", 0, 0)]

\* mutant of LookupOrCreate: the playlist is created without a lookup
LookupOrCreate_NoLookup(pls, name, fail) ==
  [ok |-> TRUE, pid |-> Len(pls) + 1,
   pls |-> Append(pls, [id |-> Len(pls) + 1, name |-> name, owner |-> Me]),
   calls |-> <<Call("current_user", 0, 0), Call("user_playlist_create", 0, Len(pls) + 1)>>]

\* ensure_playlist(sp, name) of the session variant, and lines 141-155 of the file
\* variant: look up by name and owner, create when absent.
\* Result: ok, the id returned, the remote playlists afterwards, the calls issued.
LookupOrCreate(pls, name, fail) ==
  LET user == Call("current_user", 0, 0)
      list == Call("current_user_playlists", 0, 0)
      listing == ListingCalls(PagesRead(pls, name))
      k == FindPlaylist(pls, name)
      new == Len(pls) + 1
  IN IF fail = "user" THEN [ok |-> FALSE, pid |-> None, pls |-> pls, calls |-> <<user>>]
     ELSE IF fail = "list" THEN [ok |-> FALSE, pid |-> None, pls |-> pls, calls |-> <<user, list>>]
     ELSE IF k # 0 THEN [ok |-> TRUE, pid |-> pls[k].id, pls |-> pls, calls |-> <<user>> \o listing]
     ELSE IF fail = "create"
          THEN [ok |-> FALSE, pid |-> None, pls |-> pls,
                calls |-> <<user>> \o listing \o <<Call("user_playlist_create", 0, 0)>>]
     ELSE [ok |-> TRUE, pid |-> new,
           pls |-> Append(pls, [id |-> new, name |-> name, owner |-> Me]),
           calls |-> <<user>> \o listing \o <<Call("user_playlist_create", 0, new)>>]

\* ensure_playlist(sp, name_key, id_key, name_val) of the file variant, on the file's
\* id and name of that role.  `id` and `name` are what it leaves in the file.
ensure_playlist(fid, fname, name_val, pls, fail) ==
  LET id0 == IF fname # name_val THEN None ELSE fid
      r == LookupOrCreate(pls, name_val, fail)
  IN IF id0 # None
     THEN [ok |-> TRUE, pid |-> id0, id |-> id0, name |-> name_val, pls |-> pls, calls |-> <<>>]
     ELSE [ok |-> r.ok, pid |-> r.pid, id |-> (IF r.ok THEN r.pid ELSE id0),
           name |-> name_val, pls |-> r.pls, calls |-> r.calls]

UndoOp(tid, res, undone) ==
  [name |-> "undo", tid |-> tid, res |-> res, undone |-> undone,
   present |-> InSeq(tid, queue), prev |-> IF op.res = "ok" THEN op.name ELSE ""]

\* no helper procedure is run on its own
NoProc == [kind |-> "none"]

\* load_state() defaults / init_state()
Defaults ==
  /\ variant \in {"file", "session"}
  /\ pc = "idle"
  /\ queue = <<>>
  /\ seen = EmptyDict
  /\ last_action = NoAction
  /\ LAST = <<>>
  /\ keepers_playlist_id = None
  /\ favourites_playlist_id = None
  /\ keepers_playlist_name = DEFAULT_KEEPERS_PLAYLIST_NAME
  /\ favourites_playlist_name = DEFAULT_FAVOURITES_PLAYLIST_NAME
  /\ queue_built_total = 0
  /\ stale = <<>>
  /\ playlists = <<>>
  /\ members = {}
  /\ op = Op("init", 0, "ok")
  /\ calls = <<>>

Init == Defaults /\ proc = NoProc

(* ------------------------- loading the head ---------------------------- *)
\* What the server answers to sp.track(tid): the track ("found"), no such track or
\* an invalid id ("absent"), or a failure of the transport: a network error, a
\* rate limit or server error that outlasts the retries ("error").
TrackOutcomes == {"found", "absent", "error"}

\* get_track: the track (here 1), or None when sp.track raised anything
get_track(outcome) == IF outcome = "found" THEN 1 ELSE None

(* ===================== file variant: src/swipify_app.py ================= *)
\* The script reached the action buttons: state loaded, queue not empty, and
\* get_track() returned the current track.
FileReady == variant = "file" /\ pc = "idle" /\ queue # <<>>

RoleId(role) == IF role = "keepers" THEN keepers_playlist_id ELSE favourites_playlist_id
RoleName(role) == IF role = "keepers" THEN keepers_playlist_name ELSE favourites_playlist_name
SetRoleId(role, v) ==
  IF role = "keepers"
  THEN keepers_playlist_id' = v /\ UNCHANGED favourites_playlist_id
  ELSE favourites_playlist_id' = v /\ UNCHANGED keepers_playlist_id

\* record_action(a) on current_id = queue[0]
record_action(a, ts) ==
  /\ seen' = DictPut(seen, Head(queue), [action |-> a, ts |-> ts])
  /\ last_action' = [track_id |-> Head(queue), action |-> a]

\* mutant of FileKeep: the last item of the queue is popped, not the head
FileKeep_PopsLast(ts) ==
  /\ FileReady
  /\ record_action("keep", ts)
  /\ queue' = SubSeq(queue, 1, Len(queue) - 1)
  /\ op' = Op("keep", Head(queue), "ok")
  /\ calls' = <<>>
  /\ UNCHANGED <<proc, members, variant, pc, LAST, keepers_playlist_id, favourites_playlist_id,
                 keepers_playlist_name, favourites_playlist_name, queue_built_total,
                 stale, playlists>>

\* "KEEP" clicked
FileKeep(ts) ==
  /\ FileReady
  /\ record_action("keep", ts)
  /\ queue' = Tail(queue)
  /\ op' = Op("keep", Head(queue), "ok")
  /\ calls' = <<>>
  /\ UNCHANGED <<proc, members, variant, pc, LAST, keepers_playlist_id, favourites_playlist_id,
                 keepers_playlist_name, favourites_playlist_name, queue_built_total,
                 stale, playlists>>

\* mutant of FileRemove: the decision is recorded before the remote call is made
FileRemove_RecordsFirst(ts, fail) ==
  /\ FileReady
  /\ calls' = <<Call("current_user_saved_tracks_delete", Head(queue), 0)>>
  /\ record_action("remove", ts)
  /\ IF fail = "call"
     THEN op' = Op("remove", Head(queue), "failed") /\ UNCHANGED queue
     ELSE op' = Op("remove", Head(queue), "ok") /\ queue' = Tail(queue)
  /\ UNCHANGED <<proc, members, variant, pc, LAST, keepers_playlist_id, favourites_playlist_id,
                 keepers_playlist_name, favourites_playlist_name, queue_built_total,
                 stale, playlists>>

\* "REMOVE (unlike)" clicked
FileRemove(ts, fail) ==
  /\ FileReady
  /\ calls' = <<Call("current_user_saved_tracks_delete", Head(queue), 0)>>
  /\ IF fail = "call"
     THEN /\ op' = Op("remove", Head(queue), "failed")
          /\ UNCHANGED <<queue, seen, last_action>>
     ELSE /\ record_action("remove", ts)
          /\ queue' = Tail(queue)
          /\ op' = Op("remove", Head(queue), "ok")
  /\ UNCHANGED <<proc, members, variant, pc, LAST, keepers_playlist_id, favourites_playlist_id,
                 keepers_playlist_name, favourites_playlist_name, queue_built_total,
                 stale, playlists>>

\* "KEEP -> Keepers" / "FAVOURITE -> Favourites" clicked: lines 412-434
FileAddTo(role, act, ts, fail) ==
  LET tid == Head(queue)
      r == ensure_playlist(RoleId(role), RoleName(role), RoleName(role), playlists, fail)
      add == Call("playlist_add_items", tid, r.pid)
  IN /\ FileReady
     /\ playlists' = r.pls
     /\ IF ~r.ok
        THEN /\ op' = Op(act, tid, "failed")
             /\ calls' = r.calls
             /\ SetRoleId(role, r.id)
             /\ UNCHANGED <<queue, seen, last_action, members>>
        ELSE IF fail = "call"
        THEN /\ op' = Op(act, tid, "failed")
             /\ calls' = r.calls \o <<add>>
             /\ SetRoleId(role, r.id)
             /\ UNCHANGED <<queue, seen, last_action, members>>
        ELSE /\ record_action(act, ts)
             /\ queue' = Tail(queue)
             /\ op' = Op(act, tid, "ok")
             /\ calls' = r.calls \o <<add>>
             /\ members' = members \cup {<<r.pid, tid>>}
             \* save_state(state) writes the script's own dict, loaded before
             \* ensure_playlist stored the id in the file
             /\ UNCHANGED <<keepers_playlist_id, favourites_playlist_id>>
     /\ UNCHANGED <<proc, variant, pc, LAST, keepers_playlist_name, favourites_playlist_name,
                    queue_built_total, stale>>

FileKeepers(ts, fail) == FileAddTo("keepers", "keepers", ts, fail)
FileFavourite(ts, fail) == FileAddTo("favourites", "favourite", ts, fail)

\* mutant of FileSkip: the head is popped and put back where it was
FileSkip_NoRotation(ts) ==
  /\ FileReady
  /\ record_action("skip", ts)
  /\ queue' = <<Head(queue)>> \o Tail(queue)
  /\ op' = Op("skip", Head(queue), "ok")
  /\ calls' = <<>>
  /\ UNCHANGED <<proc, members, variant, pc, LAST, keepers_playlist_id, favourites_playlist_id,
                 keepers_playlist_name, favourites_playlist_name, queue_built_total,
                 stale, playlists>>

\* "SKIP" clicked
FileSkip(ts) ==
  /\ FileReady
  /\ record_action("skip", ts)
  /\ queue' = Append(Tail(queue), Head(queue))
  /\ op' = Op("skip", Head(queue), "ok")
  /\ calls' = <<>>
  /\ UNCHANGED <<proc, members, variant, pc, LAST, keepers_playlist_id, favourites_playlist_id,
                 keepers_playlist_name, favourites_playlist_name, queue_built_total,
                 stale, playlists>>

\* mutant of FileUndoLocal: last_action is not cleared
FileUndoLocal_KeepsLastAction(tid) ==
  /\ seen' = DictDel(seen, tid)
  /\ queue' = <<tid>> \o ListRemove(queue, tid)
  /\ last_action' = last_action

\* mutant of FileUndoLocal: the Ledger entry is left in place
FileUndoLocal_KeepsLedger(tid) ==
  /\ seen' = seen
  /\ queue' = <<tid>> \o ListRemove(queue, tid)
  /\ last_action' = NoAction

\* the local roll-back of undo_last_action, lines 461-466
FileUndoLocal(tid) ==
  /\ seen' = DictDel(seen, tid)
  /\ queue' = <<tid>> \o ListRemove(queue, tid)
  /\ last_action' = NoAction

\* "Undo Last Action" clicked: undo_last_action
FileUndo(fail) ==
  LET tid == last_action.track_id
      action == last_action.action
      role == IF action = "keepers" THEN "keepers" ELSE "favourites"
      r == ensure_playlist(RoleId(role), RoleName(role), RoleName(role), playlists, fail)
      rem == Call("playlist_remove_all_occurrences_of_items", tid, r.pid)
  IN /\ FileReady
     /\ UNCHANGED <<proc, variant, pc, LAST, keepers_playlist_name, favourites_playlist_name,
                    queue_built_total, stale>>
     \* action_remove_from_playlist, when it succeeds
     /\ members' = IF action \in {"keepers", "favourite"} /\ r.ok /\ fail # "call"
                   THEN members \ {<<r.pid, tid>>} ELSE members
     /\ IF last_action = NoAction
        THEN /\ op' = UndoOp(0, "nothing", "none")
             /\ calls' = <<>>
             /\ UNCHANGED <<queue, seen, last_action, keepers_playlist_id,
                            favourites_playlist_id, playlists>>
        ELSE IF action = "remove"
        THEN /\ calls' = <<Call("current_user_saved_tracks_add", tid, 0)>>
             /\ UNCHANGED <<keepers_playlist_id, favourites_playlist_id, playlists>>
             /\ IF fail = "call"
                THEN op' = UndoOp(tid, "failed", action) /\ UNCHANGED <<queue, seen, last_action>>
                ELSE op' = UndoOp(tid, "ok", action) /\ FileUndoLocal(tid)
        ELSE IF action \in {"keepers", "favourite"}
        THEN /\ playlists' = r.pls
             /\ IF ~r.ok
                THEN /\ op' = UndoOp(tid, "failed", action)
                     /\ calls' = r.calls
                     /\ SetRoleId(role, r.id)
                     /\ UNCHANGED <<queue, seen, last_action>>
                ELSE IF fail = "call"
                THEN /\ op' = UndoOp(tid, "failed", action)
                     /\ calls' = r.calls \o <<rem>>
                     /\ SetRoleId(role, r.id)
                     /\ UNCHANGED <<queue, seen, last_action>>
                ELSE /\ op' = UndoOp(tid, "ok", action)
                     /\ calls' = r.calls \o <<rem>>
                     /\ FileUndoLocal(tid)
                     /\ UNCHANGED <<keepers_playlist_id, favourites_playlist_id>>
        ELSE /\ op' = UndoOp(tid, "ok", action)          \* keep, skip: nothing remote
             /\ calls' = <<>>
             /\ FileUndoLocal(tid)
             /\ UNCHANGED <<keepers_playlist_id, favourites_playlist_id, playlists>>

\* the script's `state` dict as loaded at line 262
ScriptState ==
  [queue |-> queue, seen |-> seen, last_action |-> last_action,
   keepers_playlist_id |-> keepers_playlist_id,
   favourites_playlist_id |-> favourites_playlist_id,
   keepers_playlist_name |-> keepers_playlist_name,
   favourites_playlist_name |-> favourites_playlist_name,
   queue_built_total |-> queue_built_total]

\* mutant of refill_queue: the identifiers are added to the queue at hand
refill_queue_Additive(lib, shuffle, f, nulls) ==
  /\ \E q \in Shuffled(shuffle, BuildList("file", lib, seen, f, nulls)) : queue' = queue \o q
  /\ queue_built_total' = Len(queue') + Cardinality(DOMAIN seen)
  /\ UNCHANGED <<seen, last_action, keepers_playlist_id, favourites_playlist_id,
                 keepers_playlist_name, favourites_playlist_name>>

\* mutant of refill_queue: the total recorded is the length of the new queue
refill_queue_TotalIsQueueLength(lib, shuffle, f, nulls) ==
  /\ queue' \in Shuffled(shuffle, BuildList("file", lib, seen, f, nulls))
  /\ queue_built_total' = Len(queue')
  /\ UNCHANGED <<seen, last_action, keepers_playlist_id, favourites_playlist_id,
                 keepers_playlist_name, favourites_playlist_name>>

\* refill_queue: loads the file, computes the queue, saves the file
refill_queue(lib, shuffle, f, nulls) ==
  /\ queue' \in Shuffled(shuffle, BuildList("file", lib, seen, f, nulls))
  /\ queue_built_total' = Len(queue') + Cardinality(DOMAIN seen)
  /\ UNCHANGED <<seen, last_action, keepers_playlist_id, favourites_playlist_id,
                 keepers_playlist_name, favourites_playlist_name>>

\* "Build/Refresh Queue" clicked (line 340).  The run goes on with the script's
\* own `state`, loaded before the build (FileAfterBuild).
FileBuild(lib, shuffle, f, nulls) ==
  /\ variant = "file" /\ pc = "idle"
  /\ calls' = <<Call("current_user_saved_tracks", 0, 0)>>
  /\ refill_queue(lib, shuffle, f, nulls)
  /\ pc' = "built"
  /\ stale' = <<ScriptState>>
  /\ op' = Op("build", 0, "ok")
  /\ UNCHANGED <<proc, members, variant, LAST, playlists>>

\* A remote call of refill_queue raises: the run ends with nothing saved.
FileBuildFails ==
  /\ variant = "file" /\ pc = "idle"
  /\ calls' = <<Call("current_user_saved_tracks", 0, 0)>>
  /\ op' = Op("build", 0, "failed")
  /\ UNCHANGED <<proc, members, variant, pc, queue, seen, last_action, LAST, keepers_playlist_id,
                 favourites_playlist_id, keepers_playlist_name, favourites_playlist_name,
                 queue_built_total, stale, playlists>>

\* The rest of the run of "Build/Refresh Queue", lines 344-360, on the script's own
\* `state`: stop on an empty queue, show the head, or drop a head that does not
\* load and save that `state`.
FileAfterBuild(outcome) ==
  LET st == stale[1]
      loaded == get_track(outcome) # None
  IN /\ variant = "file" /\ pc = "built"
     /\ pc' = "idle"
     /\ stale' = <<>>
     /\ calls' = <<>>
     /\ IF st.queue = <<>>
        THEN /\ op' = Op("after_build", 0, "stopped")
             /\ UNCHANGED <<queue, seen, last_action, keepers_playlist_id,
                            favourites_playlist_id, keepers_playlist_name,
                            favourites_playlist_name, queue_built_total>>
        ELSE IF loaded
        THEN /\ op' = Op("after_build", Head(st.queue), "shown")
             /\ UNCHANGED <<queue, seen, last_action, keepers_playlist_id,
                            favourites_playlist_id, keepers_playlist_name,
                            favourites_playlist_name, queue_built_total>>
        ELSE /\ op' = Op("after_build", Head(st.queue), "dropped")
             /\ queue' = Tail(st.queue)
             /\ seen' = st.seen
             /\ last_action' = st.last_action
             /\ keepers_playlist_id' = st.keepers_playlist_id
             /\ favourites_playlist_id' = st.favourites_playlist_id
             /\ keepers_playlist_name' = st.keepers_playlist_name
             /\ favourites_playlist_name' = st.favourites_playlist_name
             /\ queue_built_total' = st.queue_built_total
     /\ UNCHANGED <<proc, members, variant, LAST, playlists>>

\* "Filter queue to artist" clicked (lines 364-366): a shuffled build, then st.rerun()
FileArtistBuild(lib, nulls) ==
  LET curr_artists == ArtistsNames(Meta(Head(queue)))
      f == [term |-> <<>>, artist |-> curr_artists, year |-> <<>>]
  IN /\ FileReady
     /\ calls' = <<Call("current_user_saved_tracks", 0, 0)>>
     /\ refill_queue(lib, TRUE, f, nulls)
     /\ op' = Op("artist_build", Head(queue), "ok")
     /\ UNCHANGED <<proc, members, variant, pc, stale, LAST, playlists>>

\* mutant of FileHeadDrop: the dropped head is written to the Ledger
FileHeadDrop_Finalizes(outcome) ==
  /\ variant = "file" /\ pc = "idle" /\ queue # <<>>
  /\ get_track(outcome) = None
  /\ queue' = Tail(queue)
  /\ seen' = DictPut(seen, Head(queue), [action |-> "skip", ts |-> 1])
  /\ op' = Op("head_load", Head(queue), outcome)
  /\ calls' = <<>>
  /\ UNCHANGED <<proc, members, variant, pc, last_action, LAST, keepers_playlist_id,
                 favourites_playlist_id, keepers_playlist_name, favourites_playlist_name,
                 queue_built_total, stale, playlists>>

\* get_track() returned None for the head (lines 354-360): drop it, save, rerun
FileHeadDrop(outcome) ==
  /\ variant = "file" /\ pc = "idle" /\ queue # <<>>
  /\ get_track(outcome) = None
  /\ queue' = Tail(queue)
  /\ op' = Op("head_load", Head(queue), outcome)
  /\ calls' = <<>>
  /\ UNCHANGED <<proc, members, variant, pc, seen, last_action, LAST, keepers_playlist_id,
                 favourites_playlist_id, keepers_playlist_name, favourites_playlist_name,
                 queue_built_total, stale, playlists>>

\* the names a user may type for a role's playlist
NameChoices(role) ==
  IF role = "keepers" THEN {DEFAULT_KEEPERS_PLAYLIST_NAME, OtherName}
  ELSE {DEFAULT_FAVOURITES_PLAYLIST_NAME, OtherName}

\* a playlist name was edited (lines 326-338): the id of the role is forgotten
FileRename(role, name) ==
  /\ variant = "file" /\ pc = "idle"
  /\ name \in NameChoices(role) /\ name # RoleName(role)
  /\ IF role = "keepers"
     THEN /\ keepers_playlist_name' = name
          /\ keepers_playlist_id' = None
          /\ UNCHANGED <<favourites_playlist_name, favourites_playlist_id>>
     ELSE /\ favourites_playlist_name' = name
          /\ favourites_playlist_id' = None
          /\ UNCHANGED <<keepers_playlist_name, keepers_playlist_id>>
  /\ op' = Op("rename", 0, "ok")
  /\ calls' = <<>>
  /\ UNCHANGED <<proc, members, variant, pc, queue, seen, last_action, LAST, queue_built_total,
                 stale, playlists>>

(* =================== session variant: src/swpify_app.py ================= *)
\* main() reached actions(sp, tid): queue not empty and get_track() returned the track
SessReady == variant = "session" /\ pc = "idle" /\ queue # <<>>

Entry(tid, action, payload) == [id |-> tid, action |-> action, payload |-> payload]

\* "Build / Refresh queue" clicked with every remote call succeeding: options()
\* lines 281-287 and build_queue.  kname, fname are the playlist names typed.
SessBuild(lib, shuffle, f, nulls, kname, fname) ==
  LET rk == IF keepers_playlist_id = None
            THEN LookupOrCreate(playlists, kname, "none")
            ELSE [ok |-> TRUE, pid |-> keepers_playlist_id, pls |-> playlists, calls |-> <<>>]
      rf == IF favourites_playlist_id = None
            THEN LookupOrCreate(rk.pls, fname, "none")
            ELSE [ok |-> TRUE, pid |-> favourites_playlist_id, pls |-> rk.pls, calls |-> <<>>]
  IN /\ variant = "session" /\ pc = "idle"
     /\ keepers_playlist_id' = rk.pid
     /\ favourites_playlist_id' = rf.pid
     /\ playlists' = rf.pls
     /\ queue' \in Shuffled(shuffle, BuildList("session", lib, seen, f, nulls))
     /\ op' = Op("build", 0, "ok")
     /\ calls' = rk.calls \o rf.calls \o <<Call("current_user_saved_tracks", 0, 0)>>
     /\ UNCHANGED <<proc, members, variant, pc, seen, last_action, LAST, keepers_playlist_name,
                    favourites_playlist_name, queue_built_total, stale>>

\* The same click when a remote call raises (nothing catches it, the run ends):
\* in ensure_playlist for Keepers (stage 1), for Favourites (stage 2), or in
\* build_queue (stage 3).  What was assigned before stays assigned.
SessBuildFails(kname, fname, stage, fail) ==
  LET rk == IF keepers_playlist_id = None
            THEN LookupOrCreate(playlists, kname, IF stage = 1 THEN fail ELSE "none")
            ELSE [ok |-> TRUE, pid |-> keepers_playlist_id, pls |-> playlists, calls |-> <<>>]
      rf == IF favourites_playlist_id = None
            THEN LookupOrCreate(rk.pls, fname, IF stage = 2 THEN fail ELSE "none")
            ELSE [ok |-> TRUE, pid |-> favourites_playlist_id, pls |-> rk.pls, calls |-> <<>>]
  IN /\ variant = "session" /\ pc = "idle"
     /\ fail \in {"user", "list", "create"}
     /\ CASE stage = 1 -> /\ ~rk.ok
                          /\ calls' = rk.calls
                          /\ UNCHANGED <<keepers_playlist_id, favourites_playlist_id, playlists>>
          [] stage = 2 -> /\ rk.ok /\ ~rf.ok
                          /\ calls' = rk.calls \o rf.calls
                          /\ keepers_playlist_id' = rk.pid
                          /\ playlists' = rk.pls
                          /\ UNCHANGED favourites_playlist_id
          [] OTHER     -> /\ rk.ok /\ rf.ok /\ fail = "user"
                          /\ calls' = rk.calls \o rf.calls
                                        \o <<Call("current_user_saved_tracks", 0, 0)>>
                          /\ keepers_playlist_id' = rk.pid
                          /\ favourites_playlist_id' = rf.pid
                          /\ playlists' = rf.pls
     /\ op' = Op("build", 0, "failed")
     /\ UNCHANGED <<proc, members, variant, pc, queue, seen, last_action, LAST, keepers_playlist_name,
                    favourites_playlist_name, queue_built_total, stale>>

\* main() lines 428-433: get_track() returned None for the head
SessHeadDrop(outcome) ==
  /\ variant = "session" /\ pc = "idle" /\ queue # <<>>
  /\ get_track(outcome) = None
  /\ queue' = Tail(queue)
  /\ op' = Op("head_load", Head(queue), outcome)
  /\ calls' = <<>>
  /\ UNCHANGED <<proc, members, variant, pc, seen, last_action, LAST, keepers_playlist_id,
                 favourites_playlist_id, keepers_playlist_name, favourites_playlist_name,
                 queue_built_total, stale, playlists>>

\* mutant of SessFinalize: the head is not popped
SessFinalize_NoPop(action, ts, payload) ==
  /\ seen' = DictPut(seen, Head(queue), [action |-> action, ts |-> ts])
  /\ LAST' = Append(LAST, Entry(Head(queue), action, payload))
  /\ queue' = queue

\* a finalizing branch of actions(): Ledger entry, undo entry, pop
SessFinalize(action, ts, payload) ==
  /\ seen' = DictPut(seen, Head(queue), [action |-> action, ts |-> ts])
  /\ LAST' = Append(LAST, Entry(Head(queue), action, payload))
  /\ queue' = Tail(queue)

SessKeep(ts) ==
  /\ SessReady
  /\ SessFinalize("keep", ts, None)
  /\ op' = Op("keep", Head(queue), "ok")
  /\ calls' = <<>>
  /\ UNCHANGED <<proc, members, variant, pc, last_action, keepers_playlist_id, favourites_playlist_id,
                 keepers_playlist_name, favourites_playlist_name, queue_built_total,
                 stale, playlists>>

SessRemove(ts, fail) ==
  /\ SessReady
  /\ calls' = <<Call("current_user_saved_tracks_delete", Head(queue), 0)>>
  /\ IF fail = "call"
     THEN op' = Op("remove", Head(queue), "failed") /\ UNCHANGED <<queue, seen, LAST>>
     ELSE op' = Op("remove", Head(queue), "ok") /\ SessFinalize("remove", ts, None)
  /\ UNCHANGED <<proc, members, variant, pc, last_action, keepers_playlist_id, favourites_playlist_id,
                 keepers_playlist_name, favourites_playlist_name, queue_built_total,
                 stale, playlists>>

\* mutant of SessAddTo: add_to_playlist is called with the arguments of the file
\* variant's action_add_to_playlist (track first, playlist second)
SessAddTo_SwappedArguments(pid, action, ts, fail) ==
  /\ SessReady
  /\ calls' = <<Call("playlist_add_items", pid, Head(queue))>>
  /\ members' = IF fail = "call" THEN members ELSE members \cup {<<Head(queue), pid>>}
  /\ IF fail = "call"
     THEN op' = Op(action, Head(queue), "failed") /\ UNCHANGED <<queue, seen, LAST>>
     ELSE op' = Op(action, Head(queue), "ok") /\ SessFinalize(action, ts, pid)
  /\ UNCHANGED <<proc, variant, pc, last_action, keepers_playlist_id, favourites_playlist_id,
                 keepers_playlist_name, favourites_playlist_name, queue_built_total,
                 stale, playlists>>

\* the "fav" and "keepers" branches of actions()
SessAddTo(pid, action, ts, fail) ==
  /\ SessReady
  /\ calls' = <<Call("playlist_add_items", Head(queue), pid)>>
  \* sp.playlist_add_items(pid, [tid]), when it succeeds
  /\ members' = IF fail = "call" THEN members ELSE members \cup {<<pid, Head(queue)>>}
  /\ IF fail = "call"
     THEN op' = Op(action, Head(queue), "failed") /\ UNCHANGED <<queue, seen, LAST>>
     ELSE op' = Op(action, Head(queue), "ok") /\ SessFinalize(action, ts, pid)
  /\ UNCHANGED <<proc, variant, pc, last_action, keepers_playlist_id, favourites_playlist_id,
                 keepers_playlist_name, favourites_playlist_name, queue_built_total,
                 stale, playlists>>

SessFavourite(ts, fail) == SessAddTo(favourites_playlist_id, "favourite", ts, fail)
SessKeepers(ts, fail) == SessAddTo(keepers_playlist_id, "keepers", ts, fail)

\* mutant of SessSkip: the skip rotates only and writes no Ledger entry
SessSkip_RotateOnly(ts) ==
  /\ SessReady
  /\ seen' = seen
  /\ queue' = Append(Tail(queue), Head(queue))
  /\ op' = Op("skip", Head(queue), "ok")
  /\ calls' = <<>>
  /\ UNCHANGED <<proc, members, variant, pc, last_action, LAST, keepers_playlist_id,
                 favourites_playlist_id, keepers_playlist_name, favourites_playlist_name,
                 queue_built_total, stale, playlists>>

\* the "skip" branch of actions()
SessSkip(ts) ==
  /\ SessReady
  /\ seen' = DictPut(seen, Head(queue), [action |-> "skip", ts |-> ts])
  /\ queue' = Append(Tail(queue), Head(queue))
  /\ op' = Op("skip", Head(queue), "ok")
  /\ calls' = <<>>
  /\ UNCHANGED <<proc, members, variant, pc, last_action, LAST, keepers_playlist_id,
                 favourites_playlist_id, keepers_playlist_name, favourites_playlist_name,
                 queue_built_total, stale, playlists>>

\* mutant of SessUndoLocal: the item is put back at the end of the queue
SessUndoLocal_Appends(tid) ==
  /\ seen' = DictDel(seen, tid)
  /\ queue' = Append(ListRemove(queue, tid), tid)

\* mutant of SessUndoLocal: the Ledger entry is left in place
SessUndoLocal_KeepsLedger(tid) ==
  /\ seen' = seen
  /\ queue' = <<tid>> \o ListRemove(queue, tid)

\* the local roll-back of perform_undo, lines 376-378
SessUndoLocal(tid) ==
  /\ seen' = DictDel(seen, tid)
  /\ queue' = <<tid>> \o ListRemove(queue, tid)

\* "Undo" clicked: perform_undo
perform_undo(fail) ==
  LET last == LAST[Len(LAST)]
      tid == last.id
      act == last.action
      pid == last.payload
  IN /\ SessReady
     /\ UNCHANGED <<proc, variant, pc, last_action, keepers_playlist_id, favourites_playlist_id,
                    keepers_playlist_name, favourites_playlist_name, queue_built_total,
                    stale, playlists>>
     \* sp.playlist_remove_all_occurrences_of_items(pid, [tid]), when it succeeds
     /\ members' = IF LAST # <<>> /\ act \in {"favourite", "keepers"} /\ pid # None
                      /\ fail # "call"
                   THEN members \ {<<pid, tid>>} ELSE members
     /\ IF LAST = <<>>
        THEN /\ op' = UndoOp(0, "nothing", "none")
             /\ calls' = <<>>
             /\ UNCHANGED <<queue, seen, LAST>>
        ELSE /\ LAST' = SubSeq(LAST, 1, Len(LAST) - 1)
             /\ calls' = IF act = "remove"
                         THEN <<Call("current_user_saved_tracks_add", tid, 0)>>
                         ELSE IF act \in {"favourite", "keepers"} /\ pid # None
                         THEN <<Call("playlist_remove_all_occurrences_of_items", tid, pid)>>
                         ELSE <<>>
             /\ IF calls' # <<>> /\ fail = "call"
                THEN op' = UndoOp(tid, "failed", act) /\ UNCHANGED <<queue, seen>>
                ELSE op' = UndoOp(tid, "ok", act) /\ SessUndoLocal(tid)

(* ================= helper procedures, run on their own ================= *)
\* The procedures below are the ones the handlers call; here each is stepped
\* through on inputs larger than the ones a whole session is run on.
UnchangedSession ==
  UNCHANGED <<variant, pc, queue, seen, last_action, LAST, keepers_playlist_id,
              favourites_playlist_id, keepers_playlist_name, favourites_playlist_name,
              queue_built_total, stale, playlists, members, op, calls>>

(* ---- fetch_all_liked_ids, one request of the loop per step ---- *)
\* a static library of n Liked Songs, in the order of the server
Library(n) == [i \in 1..n |-> i]

\* the locals of fetch_all_liked_ids before the loop; `total` is the local of the
\* session variant (None until the first batch), `requests` counts the calls of
\* sp.current_user_saved_tracks
FetchStart(n) ==
  [kind |-> "fetch", n |-> n, ids |-> <<>>, offset |-> 0, total |-> None,
   requests |-> 0, done |-> FALSE]

\* mutant of FetchPage: the page is put in front of the identifiers read so far
FetchPage_Prepends ==
  LET batch == SavedTracksPage(Library(proc.n), proc.n, proc.offset)
      items == batch.items
      offset == proc.offset + Len(items)
      total == IF variant = "file" THEN batch.total
               ELSE IF proc.total # None THEN proc.total
               ELSE IF batch.total < 1 THEN 1 ELSE batch.total
  IN /\ proc.kind = "fetch" /\ ~proc.done
     /\ proc' = IF items = <<>>
                THEN [proc EXCEPT !.requests = @ + 1, !.done = TRUE,
                                  !.total = IF variant = "file" THEN None ELSE total]
                ELSE [proc EXCEPT !.requests = @ + 1,
                                  !.ids = items \o @,
                                  !.offset = offset,
                                  !.total = IF variant = "file" THEN None ELSE total,
                                  !.done = (offset >= total)]
     /\ UnchangedSession

\* one turn of the `while True` loop of fetch_all_liked_ids
FetchPage ==
  LET batch == SavedTracksPage(Library(proc.n), proc.n, proc.offset)
      items == batch.items
      offset == proc.offset + Len(items)
      total == IF variant = "file" THEN batch.total
               ELSE IF proc.total # None THEN proc.total
               ELSE IF batch.total < 1 THEN 1 ELSE batch.total
  IN /\ proc.kind = "fetch" /\ ~proc.done
     /\ proc' = IF items = <<>>
                THEN [proc EXCEPT !.requests = @ + 1, !.done = TRUE,
                                  !.total = IF variant = "file" THEN None ELSE total]
                ELSE [proc EXCEPT !.requests = @ + 1,
                                  !.ids = @ \o items,
                                  !.offset = offset,
                                  !.total = IF variant = "file" THEN None ELSE total,
                                  !.done = (offset >= total)]
     /\ UnchangedSession

(* ---- ensure_playlist, called twice for the same name ---- *)
\* The playlists the server lists: n of them, the k-th (if k > 0) owned by the
\* caller and named as asked; the others have that name and another owner, or
\* another name and the caller as owner.
RemotePlaylists(n, k) ==
  [i \in 1..n |->
     IF i = k THEN [id |-> i, name |-> DEFAULT_KEEPERS_PLAYLIST_NAME, owner |-> Me]
     ELSE IF i % 2 = 0 THEN [id |-> i, name |-> DEFAULT_KEEPERS_PLAYLIST_NAME, owner |-> "other"]
     ELSE [id |-> i, name |-> OtherName, owner |-> Me]]

\* `id` is the id kept for the role (state[id_key]), `made` the playlists created so
\* far, `returned` the ids the calls returned, `log` the remote calls of the last one
EnsureStart(n, k) ==
  [kind |-> "ensure", n |-> n, k |-> k, id |-> None, made |-> 0, returned |-> <<>>,
   log |-> <<>>]

\* the listing of the server at this point
ProcPlaylists ==
  RemotePlaylists(proc.n, proc.k)
    \o [i \in 1..proc.made |->
          [id |-> proc.n + i, name |-> DEFAULT_KEEPERS_PLAYLIST_NAME, owner |-> Me]]

\* one call of ensure_playlist for the Keepers name, every remote call succeeding
EnsureCall ==
  LET name == DEFAULT_KEEPERS_PLAYLIST_NAME
      rf == ensure_playlist(proc.id, name, name, ProcPlaylists, "none")
      rs == LookupOrCreate(ProcPlaylists, name, "none")
  IN /\ proc.kind = "ensure" /\ Len(proc.returned) < 2
     /\ proc' = IF variant = "file"
                THEN [proc EXCEPT !.id = rf.id, !.made = Len(rf.pls) - proc.n,
                                  !.returned = Append(@, rf.pid), !.log = rf.calls]
                ELSE [proc EXCEPT !.made = Len(rs.pls) - proc.n,
                                  !.returned = Append(@, rs.pid), !.log = rs.calls]
     /\ UnchangedSession

\* The handler that called ensure_playlist goes on to save_state(state) with the
\* dict it loaded before the call (lines 418-419): the id kept in the file is gone.
EnsureSaveScriptState ==
  /\ proc.kind = "ensure" /\ variant = "file"
  /\ Len(proc.returned) = 1 /\ proc.id # None
  /\ proc' = [proc EXCEPT !.id = None]
  /\ UnchangedSession

(* ---- sp_call, one invocation of fn per step ---- *)
\* What one invocation of fn() does: it returns, raises a SpotifyException with an
\* http status (a 429 with its Retry-After header, absent or a number), or raises
\* another exception (a network error).
Returned == [kind |-> "ok", status |-> 200, retry_after |-> <<>>]
HttpError(status, hdr) == [kind |-> "http", status |-> status, retry_after |-> hdr]
OtherError == [kind |-> "exc", status |-> 0, retry_after |-> <<>>]
NoOutcome == [kind |-> "none", status |-> 0, retry_after |-> <<>>]
FnOutcomes ==
  {Returned, OtherError}
    \cup {HttpError(429, hdr) : hdr \in {<<>>, <<0>>, <<3>>}}
    \cup {HttpError(st, <<>>) : st \in {500, 502, 503, 504, 400, 401, 404}}

\* the locals of sp_call before the loop; `log` holds the outcome of every
\* invocation of fn, `sleeps` the arguments of time.sleep, `err` what was raised
CallStart ==
  [kind |-> "call", tries |-> 0, delay |-> FirstDelay, sleeps |-> <<>>,
   status |-> "running", log |-> <<>>, err |-> NoOutcome]

\* int(headers.get("Retry-After", "0"))
RetryAfter(o) == IF o.retry_after = <<>> THEN 0 ELSE o.retry_after[1]

\* mutant of sp_call: the loop runs max_tries times before the final attempt
sp_call_RetriesOnceMore(o) ==
  LET inLoop == proc.tries < max_tries
      retried == inLoop /\ (o.kind = "exc" \/ (o.kind = "http" /\ o.status \in {429, 500, 502, 503, 504}))
      sleep == IF o.status = 429 /\ RetryAfter(o) > 0 THEN RetryAfter(o) ELSE proc.delay
  IN /\ proc.kind = "call" /\ variant = "file" /\ proc.status = "running"
     /\ proc' = [proc EXCEPT
                   !.tries = @ + 1,
                   !.log = Append(@, o),
                   !.status = IF o.kind = "ok" THEN "returned"
                              ELSE IF retried THEN "running" ELSE "raised",
                   !.err = IF o.kind # "ok" /\ ~retried THEN o ELSE @,
                   !.sleeps = IF o.kind # "ok" /\ retried THEN Append(@, sleep) ELSE @,
                   !.delay = IF o.kind # "ok" /\ retried THEN Min(@ * 2, MaxDelay) ELSE @]
     /\ UnchangedSession

\* mutant of sp_call: any SpotifyException is slept on and retried
sp_call_RetriesEveryError(o) ==
  LET inLoop == proc.tries < max_tries - 1
      retried == inLoop /\ o.kind \in {"exc", "http"}
      sleep == IF o.status = 429 /\ RetryAfter(o) > 0 THEN RetryAfter(o) ELSE proc.delay
  IN /\ proc.kind = "call" /\ variant = "file" /\ proc.status = "running"
     /\ proc' = [proc EXCEPT
                   !.tries = @ + 1,
                   !.log = Append(@, o),
                   !.status = IF o.kind = "ok" THEN "returned"
                              ELSE IF retried THEN "running" ELSE "raised",
                   !.err = IF o.kind # "ok" /\ ~retried THEN o ELSE @,
                   !.sleeps = IF o.kind # "ok" /\ retried THEN Append(@, sleep) ELSE @,
                   !.delay = IF o.kind # "ok" /\ retried THEN Min(@ * 2, MaxDelay) ELSE @]
     /\ UnchangedSession

\* mutant of sp_call: the Retry-After header is not read
sp_call_IgnoresRetryAfter(o) ==
  LET inLoop == proc.tries < max_tries - 1
      retried == inLoop /\ (o.kind = "exc" \/ (o.kind = "http" /\ o.status \in {429, 500, 502, 503, 504}))
      sleep == proc.delay
  IN /\ proc.kind = "call" /\ variant = "file" /\ proc.status = "running"
     /\ proc' = [proc EXCEPT
                   !.tries = @ + 1,
                   !.log = Append(@, o),
                   !.status = IF o.kind = "ok" THEN "returned"
                              ELSE IF retried THEN "running" ELSE "raised",
                   !.err = IF o.kind # "ok" /\ ~retried THEN o ELSE @,
                   !.sleeps = IF o.kind # "ok" /\ retried THEN Append(@, sleep) ELSE @,
                   !.delay = IF o.kind # "ok" /\ retried THEN Min(@ * 2, MaxDelay) ELSE @]
     /\ UnchangedSession

\* mutant of sp_call: the delay is doubled only after a sleep that used it
sp_call_DoublesOwnSleepsOnly(o) ==
  LET inLoop == proc.tries < max_tries - 1
      retried == inLoop /\ (o.kind = "exc" \/ (o.kind = "http" /\ o.status \in {429, 500, 502, 503, 504}))
      sleep == IF o.status = 429 /\ RetryAfter(o) > 0 THEN RetryAfter(o) ELSE proc.delay
  IN /\ proc.kind = "call" /\ variant = "file" /\ proc.status = "running"
     /\ proc' = [proc EXCEPT
                   !.tries = @ + 1,
                   !.log = Append(@, o),
                   !.status = IF o.kind = "ok" THEN "returned"
                              ELSE IF retried THEN "running" ELSE "raised",
                   !.err = IF o.kind # "ok" /\ ~retried THEN o ELSE @,
                   !.sleeps = IF o.kind # "ok" /\ retried THEN Append(@, sleep) ELSE @,
                   !.delay = IF o.kind # "ok" /\ retried /\ sleep = @
                             THEN Min(@ * 2, MaxDelay) ELSE @]
     /\ UnchangedSession

\* sp_call: one invocation of fn with outcome o, in the loop (the first
\* max_tries - 1 invocations) or as the final attempt of line 128
sp_call(o) ==
  LET inLoop == proc.tries < max_tries - 1
      retried == inLoop /\ (o.kind = "exc" \/ (o.kind = "http" /\ o.status \in {429, 500, 502, 503, 504}))
      sleep == IF o.status = 429 /\ RetryAfter(o) > 0 THEN RetryAfter(o) ELSE proc.delay
  IN /\ proc.kind = "call" /\ variant = "file" /\ proc.status = "running"
     /\ proc' = [proc EXCEPT
                   !.tries = @ + 1,
                   !.log = Append(@, o),
                   !.status = IF o.kind = "ok" THEN "returned"
                              ELSE IF retried THEN "running" ELSE "raised",
                   !.err = IF o.kind # "ok" /\ ~retried THEN o ELSE @,
                   !.sleeps = IF o.kind # "ok" /\ retried THEN Append(@, sleep) ELSE @,
                   !.delay = IF o.kind # "ok" /\ retried THEN Min(@ * 2, MaxDelay) ELSE @]
     /\ UnchangedSession

\* the session variant calls the client directly (unlike, relike, add_to_playlist,
\* remove_from_playlist): one invocation, whatever it raises goes to the caller
DirectCall(o) ==
  /\ proc.kind = "call" /\ variant = "session" /\ proc.status = "running"
  /\ proc' = [proc EXCEPT
                !.tries = @ + 1,
                !.log = Append(@, o),
                !.status = IF o.kind = "ok" THEN "returned" ELSE "raised",
                !.err = IF o.kind # "ok" THEN o ELSE @]
  /\ UnchangedSession

(* ---- the filter of a build, on one batch of sp.tracks ---- *)
\* the batch: one track of each kind
FilterIds == <<1, 2, 3>>
\* what a user may type in the three filter fields
FilterTerms == {<<>>, <<"A">>, <<"b">>, <<"b", " ", "x">>, <<"z">>}
FilterArtists == {<<>>, <<"x">>, <<"Y">>, <<"z">>}
FilterYears == {<<>>, <<"2", "0", "2", "0">>, <<" ", "2", "0", "2", "1">>, <<"2", "0">>}

FilterStart(f, nulls) ==
  [kind |-> "filter", f |-> f, nulls |-> nulls, out |-> <<>>, done |-> FALSE]

\* lines 176-198 of refill_queue / apply_filters, on identifiers `ids`
FilterOut(ids, f, nulls) ==
  IF variant = "file" THEN FilterFile(ids, f, nulls) ELSE apply_filters(ids, f, nulls)

FilterApply ==
  /\ proc.kind = "filter" /\ ~proc.done
  /\ proc' = [proc EXCEPT !.out = FilterOut(FilterIds, proc.f, proc.nulls), !.done = TRUE]
  /\ UnchangedSession

(* ---- one build, from any Queue and Ledger ---- *)
\* the lists without a repeated identifier
RECURSIVE ListsOver(_)
ListsOver(S) ==
  {<<>>} \cup UNION {{<<x>> \o l : l \in ListsOver(S \ {x})} : x \in S}
\* the Ledgers over the identifiers, of skips and removes
Ledgers ==
  UNION {[K -> {[action |-> a, ts |-> 1] : a \in {"skip", "remove"}}] : K \in SUBSET Ids}

\* what the build is given: the library the server lists, the options and filter
\* typed, the null entries of sp.tracks; `before` is the Queue it finds
BuildStart(lib, shuffle, b, before) ==
  [kind |-> "build", lib |-> lib, shuffle |-> shuffle, f |-> b.f, nulls |-> b.nulls,
   before |-> before]

\* the "Build/Refresh Queue" button of either variant, once
BuildOnce ==
  /\ proc.kind = "build" /\ op.name = "init"
  /\ \/ FileBuild(proc.lib, proc.shuffle, proc.f, proc.nulls)
     \/ SessBuild(proc.lib, proc.shuffle, proc.f, proc.nulls,
                  DEFAULT_KEEPERS_PLAYLIST_NAME, DEFAULT_FAVOURITES_PLAYLIST_NAME)

\* the "Filter queue to artist" button, once
ArtistBuildOnce ==
  /\ proc.kind = "build" /\ op.name = "init"
  /\ FileArtistBuild(proc.lib, proc.nulls)

(* ---- the procedures as specifications ---- *)
\* A build on a session that has come to any Queue and any Ledger: the Queue has
\* no repeated identifier, and holds of the Ledger's identifiers the skipped only.
BuildInit ==
  /\ variant \in {"file", "session"}
  /\ pc = "idle"
  /\ queue \in ListsOver(Ids)
  /\ seen \in Ledgers
  /\ \A i \in 1..Len(queue) : queue[i] \in DOMAIN seen => seen[queue[i]].action = "skip"
  /\ last_action = NoAction
  /\ LAST = <<>>
  /\ keepers_playlist_id = None
  /\ favourites_playlist_id = None
  /\ keepers_playlist_name = DEFAULT_KEEPERS_PLAYLIST_NAME
  /\ favourites_playlist_name = DEFAULT_FAVOURITES_PLAYLIST_NAME
  /\ queue_built_total = 0
  /\ stale = <<>>
  /\ playlists = <<>>
  /\ members = {}
  /\ op = Op("init", 0, "ok")
  /\ calls = <<>>
  /\ proc \in {BuildStart(lib, shuffle, b, queue) :
                 lib \in SessLibraries, shuffle \in BOOLEAN, b \in BuildInputs}
BuildNext == BuildOnce \/ ArtistBuildOnce
BuildSpec == BuildInit /\ [][BuildNext]_vars

\* the filter of a build on every combination of criteria
FilterInit ==
  /\ Defaults
  /\ proc \in {FilterStart([term |-> t, artist |-> a, year |-> y], nulls) :
                 t \in FilterTerms, a \in FilterArtists, y \in FilterYears,
                 nulls \in {{}, {1}, {2}}}
FilterNext == FilterApply
FilterSpec == FilterInit /\ [][FilterNext]_vars

\* fetch_all_liked_ids on a static library; the loop keeps running until it returns
FetchInit == Defaults /\ proc \in {FetchStart(n) : n \in 0..MaxLibrary}
FetchNext == FetchPage
FetchSpec == FetchInit /\ [][FetchNext]_vars /\ WF_vars(FetchNext)

\* ensure_playlist called twice in one session
EnsureInit ==
  /\ Defaults
  /\ proc \in {EnsureStart(n, k) : n \in 0..MaxPlaylists, k \in 0..MaxPlaylists}
  /\ proc.k <= proc.n
EnsureNext == EnsureCall \/ EnsureSaveScriptState
EnsureSpec == EnsureInit /\ [][EnsureNext]_vars

\* one remote call, through sp_call or directly; fn is invoked again until sp_call
\* returns or raises
CallInit == Defaults /\ proc = CallStart
CallNext ==
  \/ \E o \in FnOutcomes : sp_call(o)
  \/ \E o \in FnOutcomes : DirectCall(o)
CallSpec == CallInit /\ [][CallNext]_vars /\ WF_vars(CallNext)

(* ============================ specification ============================ *)
FileNext ==
  \/ \E ts \in Times : FileKeep(ts)
  \/ \E ts \in Times, fail \in {"none", "call"} : FileRemove(ts, fail)
  \/ \E ts \in Times, fail \in Fails : FileKeepers(ts, fail)
  \/ \E ts \in Times, fail \in Fails : FileFavourite(ts, fail)
  \/ \E ts \in Times : FileSkip(ts)
  \/ \E fail \in Fails : FileUndo(fail)
  \/ \E lib \in FileLibraries, shuffle \in BOOLEAN, b \in BuildInputs :
        FileBuild(lib, shuffle, b.f, b.nulls)
  \/ FileBuildFails
  \/ \E outcome \in TrackOutcomes : FileAfterBuild(outcome)
  \/ \E lib \in FileLibraries, b \in BuildInputs : FileArtistBuild(lib, b.nulls)
  \/ \E outcome \in TrackOutcomes : FileHeadDrop(outcome)

SessNext ==
  \/ \E lib \in SessLibraries, shuffle \in BOOLEAN, b \in BuildInputs :
        SessBuild(lib, shuffle, b.f, b.nulls, DEFAULT_KEEPERS_PLAYLIST_NAME,
                  DEFAULT_FAVOURITES_PLAYLIST_NAME)
  \/ \E stage \in 1..3, fail \in Fails :
        SessBuildFails(DEFAULT_KEEPERS_PLAYLIST_NAME, DEFAULT_FAVOURITES_PLAYLIST_NAME,
                       stage, fail)
  \/ \E outcome \in TrackOutcomes : SessHeadDrop(outcome)
  \/ \E ts \in Times : SessKeep(ts)
  \/ \E ts \in Times, fail \in {"none", "call"} : SessRemove(ts, fail)
  \/ \E ts \in Times, fail \in {"none", "call"} : SessFavourite(ts, fail)
  \/ \E ts \in Times, fail \in {"none", "call"} : SessKeepers(ts, fail)
  \/ \E ts \in Times : SessSkip(ts)
  \/ \E fail \in {"none", "call"} : perform_undo(fail)

\* Every run of either program, with the playlist names left at their defaults.
Next == FileNext \/ SessNext

Spec == Init /\ [][Next]_vars

(* ================================ claims =============================== *)
Finalizing == {"keep", "remove", "keepers", "favourite"}
InQueue(t) == InSeq(t, queue)
Count(s, x) == Cardinality({i \in 1..Len(s) : s[i] = x})
\* the calls of a log that go to one remote API
CallsTo(log, api) == SelectSeq(log, LAMBDA c : c.api = api)
\* every Ledger entry but the one of t is as it was
OthersKept(t) ==
  /\ (DOMAIN seen') \ {t} = (DOMAIN seen) \ {t}
  /\ \A x \in (DOMAIN seen) \ {t} : seen'[x] = seen[x]

\* C1 (as stated): in every reachable state no identifier of the Queue is a key of
\* the Ledger.
C1_QueueDisjointFromLedger ==
  \A i \in 1..Len(queue) : queue[i] \notin DOMAIN seen

\* C1 (amended): in every reachable state an identifier of the Queue that is a key
\* of the Ledger has a Ledger entry whose decision is skip.
C1_QueuedEntriesAreSkips ==
  \A i \in 1..Len(queue) : queue[i] \in DOMAIN seen => seen[queue[i]].action = "skip"

\* C1 witness: after a skip the skipped identifier is in the Queue and in the Ledger,
\* next to an identifier that was finalized and is not in the Queue.
C1_Witness ==
  /\ op.name = "skip"
  /\ InQueue(op.tid) /\ op.tid \in DOMAIN seen
  /\ \E x \in DOMAIN seen : seen[x].action \in Finalizing /\ ~InQueue(x)

\* C2: no identifier appears twice in the Queue, and an undo of an item that is
\* still in the Queue leaves exactly one occurrence of it, at the head.
C2_NoDuplicates ==
  /\ [](NoDup(queue))
  /\ [][(op'.name = "undo" /\ op'.res = "ok" /\ InQueue(op'.tid))
          => (Head(queue') = op'.tid /\ Count(queue', op'.tid) = 1)]_vars

\* C2 witness: an undo succeeded on an item that was in the Queue, behind another.
C2_Witness ==
  /\ op.name = "undo" /\ op.res = "ok" /\ op.present
  /\ Len(queue) >= 2 /\ Head(queue) = op.tid

\* C3: the Queue a build produces holds no key of the Ledger of that moment.
C3_BuildSkipsLedger ==
  (op.name \in {"build", "artist_build"} /\ op.res = "ok")
     => \A i \in 1..Len(queue) : queue[i] \notin DOMAIN seen

\* C3 witness: a build on a non-empty Ledger that produced a non-empty Queue.
C3_Witness ==
  /\ op.name \in {"build", "artist_build"} /\ op.res = "ok"
  /\ seen # EmptyDict /\ queue # <<>>

\* C4 (as stated): a skip leaves the Ledger unchanged.
C4_SkipKeepsLedger ==
  [][op'.name = "skip" => seen' = seen]_vars

\* C4 (amended): a skip writes the Ledger entry of the skipped head, with decision
\* skip and the time of the skip, leaves every other entry unchanged, and the
\* skipped item stays in the Queue.
C4_SkipWritesOnlyHead ==
  [][op'.name = "skip" =>
        /\ op'.tid = Head(queue)
        /\ Head(queue) \in DOMAIN seen'
        /\ seen'[Head(queue)].action = "skip"
        /\ seen'[Head(queue)].ts \in Times
        /\ OthersKept(Head(queue))
        /\ InSeq(Head(queue), queue')]_vars

\* C4 witness: after a skip the Ledger holds the skipped item and an older entry.
C4_Witness ==
  /\ op.name = "skip"
  /\ op.tid \in DOMAIN seen /\ seen[op.tid].action = "skip"
  /\ Cardinality(DOMAIN seen) >= 2

\* C5: a skip on a Queue of length >= 2 moves the head to the end, makes the old
\* second element the head, keeps the order of the others and the length, and
\* issues no remote call.
C5_SkipRotates ==
  [][(op'.name = "skip" /\ Len(queue) >= 2) =>
        /\ Len(queue') = Len(queue)
        /\ queue'[Len(queue')] = queue[1]
        /\ queue'[1] = queue[2]
        /\ \A i \in 1..(Len(queue) - 1) : queue'[i] = queue[i + 1]
        /\ calls' = <<>>]_vars

\* C5 witness: a skip has run on a Queue of two or more.
C5_Witness ==
  /\ op.name = "skip" /\ Len(queue) >= 2 /\ queue[Len(queue)] = op.tid

\* C6: a successful remove of head h followed at once by a successful undo puts h
\* at the head of the Queue and out of the Ledger, with exactly one re-add call.
C6_UndoOfRemove ==
  [][(op.name = "remove" /\ op.res = "ok" /\ op'.name = "undo" /\ op'.res = "ok") =>
        /\ op'.tid = op.tid
        /\ Head(queue') = op.tid
        /\ op.tid \notin DOMAIN seen'
        /\ calls' = <<Call("current_user_saved_tracks_add", op.tid, 0)>>]_vars

\* C6 witness: an undo succeeded right after a successful remove.
C6_Witness ==
  /\ op.name = "undo" /\ op.res = "ok" /\ op.prev = "remove" /\ op.undone = "remove"
  /\ Head(queue) = op.tid /\ op.tid \notin DOMAIN seen

\* C7 (as stated): of two undos in a row the second changes nothing and calls
\* nothing.
C7_SecondUndoIsNoOp ==
  [][(op.name = "undo" /\ op.res = "ok" /\ op'.name = "undo") =>
        (queue' = queue /\ seen' = seen /\ calls' = <<>>)]_vars

\* C7 (amended): an undo reverses the most recent decision not yet undone.  In the
\* file variant a second undo in a row is a no-op.  In the session variant it is a
\* no-op only on an empty undo stack; otherwise it pops the stack once more and
\* reverses the decision before.
C7_UndoDepth ==
  [][op'.name = "undo" =>
        /\ (variant = "file" /\ last_action # NoAction) => op'.tid = last_action.track_id
        /\ (variant = "session" /\ LAST # <<>>) =>
              /\ op'.tid = LAST[Len(LAST)].id
              /\ LAST' = SubSeq(LAST, 1, Len(LAST) - 1)
        /\ OthersKept(op'.tid)
        /\ (op.name = "undo" /\ op.res = "ok") =>
              IF variant = "file" \/ LAST = <<>>
              THEN op'.res = "nothing" /\ queue' = queue /\ seen' = seen /\ calls' = <<>>
              ELSE op'.res # "nothing"]_vars

\* C7 witness: in the session variant a second undo in a row reversed a decision.
C7_Witness ==
  /\ variant = "session" /\ op.name = "undo" /\ op.prev = "undo" /\ op.res = "ok"
  /\ Head(queue) = op.tid

\* C8: a finalizing decision whose remote call fails leaves the Queue, the Ledger
\* and the undo record as they were.
C8_FailedDecisionChangesNothing ==
  [][(op'.name \in {"remove", "keepers", "favourite"} /\ op'.res = "failed") =>
        (queue' = queue /\ seen' = seen /\ last_action' = last_action /\ LAST' = LAST)]_vars

\* C8 witness: a decision failed at its side-effect call, after an earlier decision.
C8_Witness ==
  /\ op.name \in {"remove", "keepers", "favourite"} /\ op.res = "failed"
  /\ calls # <<>> /\ Head(queue) = op.tid /\ seen # EmptyDict

\* C9: an undo whose remote reversal fails still erases the Ledger entry of the
\* item and puts the item at the head of the Queue.
C9_FailedUndoRollsBack ==
  [][(op'.name = "undo" /\ op'.res = "failed") =>
        (op'.tid \notin DOMAIN seen' /\ queue' # <<>> /\ Head(queue') = op'.tid)]_vars

\* the collection of a role after a decision filed into it
RoleOfAction(a) == IF a = "keepers" THEN "keepers" ELSE "favourites"
RoleCollection(a) ==
  IF variant = "session"
  THEN (IF a = "keepers" THEN keepers_playlist_id ELSE favourites_playlist_id)
  ELSE FindPlaylist(playlists', RoleName(RoleOfAction(a)))

\* C10: a successful finalizing decision d on head h pops the head, records d for h
\* and keeps every other Ledger entry; keep calls nothing, remove issues exactly one
\* root-removal call for h, a filing decision exactly one add call of h to the
\* collection of its role.
C10_FinalizingDecision ==
  [][(op'.name \in Finalizing /\ op'.res = "ok") =>
        LET h == Head(queue)
            d == op'.name
            sideEffects == SelectSeq(calls', LAMBDA c : c.tid # 0)
        IN /\ op'.tid = h
           /\ queue' = Tail(queue)
           /\ h \in DOMAIN seen' /\ seen'[h].action = d
           /\ OthersKept(h)
           /\ d = "keep" => calls' = <<>>
           /\ d = "remove" => calls' = <<Call("current_user_saved_tracks_delete", h, 0)>>
           /\ d \in {"keepers", "favourite"} =>
                /\ RoleCollection(d) # None
                /\ sideEffects = <<Call("playlist_add_items", h, RoleCollection(d))>>]_vars

\* C10 witness: a filing decision succeeded on a Ledger that held another entry.
C10_Witness ==
  /\ op.name \in {"keepers", "favourite"} /\ op.res = "ok"
  /\ Cardinality(DOMAIN seen) >= 2
  /\ Len(CallsTo(calls, "playlist_add_items")) = 1

\* C11: when the fetch of the head's metadata reports the item absent, the head is
\* removed from the Queue, the rest of the Queue keeps its order, and the Ledger and
\* the undo record are unchanged.  In the run of a build of the file variant the
\* Queue at hand is the one the script loaded before the build.
C11_AbsentHeadIsDropped ==
  [][((op'.name = "head_load" /\ op'.res = "absent") =>
        (/\ op'.tid = Head(queue)
         /\ queue' = Tail(queue)
         /\ seen' = seen /\ last_action' = last_action /\ LAST' = LAST))
     /\
     ((op'.name = "after_build" /\ op'.res = "dropped") =>
        (/\ op'.tid = Head(stale[1].queue)
         /\ queue' = Tail(stale[1].queue)
         /\ seen' = seen /\ last_action' = last_action /\ LAST' = LAST))]_vars

\* C11 witness: an absent head was dropped from a Queue of several items while the
\* Ledger held an entry; the item dropped is in neither.
C11_Witness ==
  /\ op.name = "head_load" /\ op.res = "absent"
  /\ queue # <<>> /\ seen # EmptyDict
  /\ ~InQueue(op.tid) /\ op.tid \notin DOMAIN seen

\* C12: on a static source of N items served in pages of PAGE_SIZE with a correct
\* total, fetch_all_liked_ids terminates and returns exactly the N identifiers, each
\* once, in the order of the source; it stops when the offset reaches the total or
\* a page is empty, so it issues one request per page (one request when N = 0).
C12_FetchIsComplete ==
  /\ [](proc.kind = "fetch" =>
          /\ proc.requests <= (proc.n + PAGE_SIZE - 1) \div PAGE_SIZE + 1
          /\ proc.done =>
                /\ proc.ids = Library(proc.n)
                /\ Len(proc.ids) = proc.n /\ NoDup(proc.ids)
                /\ proc.ids = fetch_all_liked_ids(variant, Library(proc.n))
                /\ proc.requests = IF proc.n = 0 THEN 1
                                   ELSE (proc.n + PAGE_SIZE - 1) \div PAGE_SIZE)
  /\ ((proc.kind = "fetch") ~> (proc.kind = "fetch" /\ proc.done))

\* C12 witness: a library of more than two full pages was fetched in three requests.
C12_Witness ==
  /\ proc.kind = "fetch" /\ proc.done
  /\ proc.n > 2 * PAGE_SIZE /\ proc.requests = 3 /\ Len(proc.ids) = proc.n

\* the calls of a log that read a page of the caller's playlists
ListingCallsOf(log) == SelectSeq(log, LAMBDA c : c.api \in {"current_user_playlists", "next"})

\* C13: two calls of ensure_playlist with the same name return the same id and
\* issue at most one create call between them; a create call is issued only when
\* no listed playlist has that name and the caller as owner, and after every page
\* of the listing has been read.
C13_EnsureIsIdempotent ==
  /\ []((proc.kind = "ensure" /\ Len(proc.returned) = 2) =>
          (proc.returned[1] = proc.returned[2] /\ proc.made <= 1))
  /\ [][(proc.kind = "ensure" /\ Len(proc'.returned) > Len(proc.returned)) =>
          /\ proc'.made - proc.made = Len(CallsTo(proc'.log, "user_playlist_create"))
          /\ proc'.made > proc.made =>
                /\ \A i \in 1..Len(ProcPlaylists) :
                      ~(ProcPlaylists[i].name = DEFAULT_KEEPERS_PLAYLIST_NAME
                          /\ ProcPlaylists[i].owner = Me)
                /\ Len(ListingCallsOf(proc'.log)) = PagesOf(Len(ProcPlaylists))
                /\ proc'.log[Len(proc'.log)].api = "user_playlist_create"]_vars

\* C13 witness: the first call read three pages and created the playlist, the
\* second call returned the same id.
C13_Witness ==
  /\ proc.kind = "ensure" /\ Len(proc.returned) = 2
  /\ proc.n > 2 * PlaylistsLimit /\ proc.made = 1
  /\ proc.returned[2] = proc.n + 1

\* the failures sp_call sleeps on: rate limit, server error, non-http exception
Transient(o) == o.kind = "exc" \/ (o.kind = "http" /\ o.status \in {429, 500, 502, 503, 504})
\* a remote error with any other status
Permanent(o) == o.kind = "http" /\ o.status \notin {429, 500, 502, 503, 504}
\* the invocation of fn that this step makes
Invoked == proc'.log[Len(proc'.log)]
SpCallStep == proc.kind = "call" /\ variant = "file" /\ proc'.tries = proc.tries + 1

\* C14: sp_call invokes fn at most max_tries = 5 times and always ends; when every
\* invocation fails with a transient error there are exactly 5 of them and the error
\* of the last one is raised; a successful invocation returns at once, with no sleep
\* and no invocation after it.
C14_AtMostFiveAttempts ==
  /\ []((proc.kind = "call" /\ variant = "file") =>
          /\ proc.tries <= max_tries /\ proc.tries = Len(proc.log)
          /\ (proc.status # "running" /\ \A i \in 1..Len(proc.log) : Transient(proc.log[i])) =>
                (proc.tries = 5 /\ proc.status = "raised" /\ proc.err = proc.log[5]
                   /\ Len(proc.sleeps) = 4))
  /\ [][(SpCallStep /\ Invoked.kind = "ok") =>
          (proc'.status = "returned" /\ proc'.sleeps = proc.sleeps)]_vars
  /\ [][(proc.kind = "call" /\ proc.status # "running") => proc' = proc]_vars
  /\ ((proc.kind = "call") ~> (proc.kind = "call" /\ proc.status # "running"))

\* C14 witness: five transient failures, four sleeps of 1, 2, 4, 8, the last raised.
C14_Witness ==
  /\ proc.kind = "call" /\ variant = "file" /\ proc.status = "raised"
  /\ proc.tries = 5 /\ proc.sleeps = <<1, 2, 4, 8>> /\ proc.err = HttpError(503, <<>>)

\* C15: a remote error whose status is neither 429 nor 500/502/503/504 is raised to
\* the caller by the invocation that met it, with no sleep and no invocation after.
C15_PermanentIsNotRetried ==
  /\ [][(proc.kind = "call" /\ proc'.tries = proc.tries + 1 /\ Permanent(Invoked)) =>
          (proc'.status = "raised" /\ proc'.err = Invoked /\ proc'.sleeps = proc.sleeps)]_vars
  /\ [][(proc.kind = "call" /\ proc.status = "raised") =>
          (proc'.tries = proc.tries /\ proc'.sleeps = proc.sleeps)]_vars

\* C15 witness: a 404 met at the second invocation was raised after one sleep.
C15_Witness ==
  /\ proc.kind = "call" /\ proc.status = "raised" /\ proc.tries = 2
  /\ proc.err = HttpError(404, <<>>) /\ Len(proc.sleeps) = 1

\* C16: on a 429 that is retried sp_call sleeps for the Retry-After value when it is
\* present and positive, otherwise for the current delay; a 429 with Retry-After 3
\* twice and then a success gives sleeps of 3 and 3, the result, and 3 invocations.
C16_RateLimitSleep ==
  /\ [][(SpCallStep /\ Invoked.status = 429 /\ proc.tries < max_tries - 1) =>
          /\ proc'.status = "running"
          /\ proc'.sleeps = Append(proc.sleeps,
                                   IF Invoked.retry_after # <<>> /\ Invoked.retry_after[1] > 0
                                   THEN Invoked.retry_after[1] ELSE proc.delay)]_vars
  /\ []((proc.kind = "call" /\ variant = "file"
           /\ proc.log = <<HttpError(429, <<3>>), HttpError(429, <<3>>), Returned>>) =>
          (proc.sleeps = <<3, 3>> /\ proc.status = "returned" /\ proc.tries = 3))

\* C16 witness: the run of the example has returned.
C16_Witness ==
  /\ proc.kind = "call" /\ variant = "file" /\ proc.status = "returned"
  /\ proc.log = <<HttpError(429, <<3>>), HttpError(429, <<3>>), Returned>>
  /\ proc.sleeps = <<3, 3>> /\ proc.tries = 3

\* the texts the term of a filter is searched in
TextOf(tr) ==
  IF variant = "file" THEN {tr.name, ArtistsNames(tr), tr.album}
  ELSE {Join(<<" ">>, <<tr.name, ArtistsNames(tr), tr.album>>)}
TextHolds(tr, term) == \E t \in TextOf(tr) : Contains(Lower(term), Lower(t))
ContributorHolds(tr, artist) == Contains(Lower(artist), Lower(ArtistsNames(tr)))
YearHolds(tr, year) ==
  LET date == tr.release_date
  IN SubSeq(date, 1, IF Len(date) < 4 THEN Len(date) ELSE 4) = Strip(year)
\* the identifiers of the batch a filter retains
Kept(f, nulls) == {t \in 1..Len(FilterIds) : InSeq(t, FilterOut(FilterIds, f, nulls))}
OnlyTerm(f) == [NoFilter EXCEPT !.term = f.term]
OnlyArtist(f) == [NoFilter EXCEPT !.artist = f.artist]
OnlyYear(f) == [NoFilter EXCEPT !.year = f.year]

Satisfies(t, f, nulls) ==
  (f.term # <<>> \/ f.artist # <<>> \/ f.year # <<>>) =>
     /\ t \notin nulls
     /\ f.term # <<>> => TextHolds(Meta(t), f.term)
     /\ f.artist # <<>> => ContributorHolds(Meta(t), f.artist)
     /\ f.year # <<>> => YearHolds(Meta(t), f.year)

\* the filter a build applies: the one typed, or the artists of the head
BuildFilter ==
  IF op'.name = "artist_build"
  THEN [NoFilter EXCEPT !.artist = ArtistsNames(Meta(Head(queue)))]
  ELSE proc.f

\* C18: after a build with shuffle off the Queue is the subsequence, in the order
\* of the server, of the listed identifiers that are not in the Ledger and satisfy
\* the filter, whatever the Queue held before; with shuffle on it is a permutation
\* of that subsequence.
C18_BuildReplacesQueue ==
  [][(op'.name \in {"build", "artist_build"} /\ op'.res = "ok") =>
        LET expected == SelectSeq(proc.lib, LAMBDA t : t \notin DOMAIN seen
                                                        /\ Satisfies(t, BuildFilter, proc.nulls))
        IN /\ proc.before = queue
           /\ seen' = seen
           /\ IF proc.shuffle \/ op'.name = "artist_build"
              THEN /\ Len(queue') = Len(expected)
                   /\ \A i \in 1..Len(expected) : Count(queue', expected[i]) = 1
              ELSE queue' = expected]_vars

\* C18 witness: a build without shuffle replaced a Queue of identifiers the server
\* no longer lists by the listed ones that the Ledger does not hold.
C18_Witness ==
  /\ proc.kind = "build" /\ op.name = "build" /\ op.res = "ok" /\ ~proc.shuffle
  /\ proc.before # <<>> /\ \A i \in 1..Len(proc.before) : ~InQueue(proc.before[i])
  /\ seen # EmptyDict /\ queue # <<>> /\ Len(queue) < Len(proc.lib)

\* C19: a skip neither creates nor replaces an undo entry, and an undo that follows
\* a skip reverses the last finalized decision: the item of that decision is back
\* at the head of the Queue and out of the Ledger.
C19_UndoAfterSkip ==
  /\ [][op'.name = "skip" => (last_action' = last_action /\ LAST' = LAST)]_vars
  /\ [][(op.name = "skip" /\ op'.name = "undo" /\ op'.res = "ok") =>
          /\ op'.undone \in Finalizing
          /\ Head(queue') = op'.tid
          /\ op'.tid \notin DOMAIN seen']_vars

\* C20: a transport error of the fetch of the head's metadata is told apart from
\* an absent item: the head whose fetch met a transport error stays in the Queue.
C20_TransportErrorKeepsHead ==
  [][(op'.name = "head_load" /\ op'.res = "error") => queue' = queue]_vars

\* the filing decision a run is about: the one taken, or the one an undo reverses
FiledBy(o) == IF o.name = "undo" THEN o.undone ELSE o.name

\* C21: once a filing decision of a role has completed (the Ledger holds an entry
\* of that decision), a later run that needs the collection of that role, under
\* the same name, takes its id from the session and issues no call that looks the
\* collection up or creates it.
C21_IdIsCached ==
  [][(FiledBy(op') \in {"keepers", "favourite"}
        /\ \E x \in DOMAIN seen : seen[x].action = FiledBy(op')) =>
       \A i \in 1..Len(calls') :
          calls'[i].api \notin {"current_user", "current_user_playlists", "next",
                                "user_playlist_create"}]_vars

\* C22: when the rest of a request in which the Queue was built has run (the head
\* load, a head drop), the persisted Queue still holds only identifiers of that
\* build: nothing derived from the Queue of before the build is written back.
C22_BuildSurvivesRequest ==
  [][(pc = "built" /\ pc' = "idle") =>
       \A i \in 1..Len(queue') : InSeq(queue'[i], queue)]_vars

(* ------------- filing decisions while the playlist names change ---------- *)
\* The runs around a filing decision, with the playlist names edited between them:
\* the text inputs of lines 326-338 (file variant) and of options() (session variant).
\* The library is <<1, 2>> and the remote calls of the file variant succeed.
RenameNext ==
  \/ FileBuild(<<1, 2>>, FALSE, NoFilter, {})
  \/ FileAfterBuild("found")
  \/ \E role \in {"keepers", "favourites"} : \E name \in NameChoices(role) :
        FileRename(role, name)
  \/ \E ts \in Times : FileKeepers(ts, "none")
  \/ \E ts \in Times : FileFavourite(ts, "none")
  \/ FileUndo("none")
  \/ \E kname \in NameChoices("keepers"), fname \in NameChoices("favourites") :
        SessBuild(<<1, 2>>, FALSE, NoFilter, {}, kname, fname)
  \/ \E ts \in Times, fail \in {"none", "call"} : SessFavourite(ts, fail)
  \/ \E ts \in Times, fail \in {"none", "call"} : SessKeepers(ts, fail)
  \/ \E fail \in {"none", "call"} : perform_undo(fail)

RenameSpec == Init /\ [][RenameNext]_vars

\* C23: the undo of a filing decision issues its remove call against the collection
\* the item was added to, whatever the name configured for the role is by then, and
\* creates no remote collection.
C23_UndoUsesSameCollection ==
  [][(op'.name = "undo" /\ op'.undone \in {"keepers", "favourite"}) =>
       /\ \A i \in 1..Len(calls') :
             /\ calls'[i].api # "user_playlist_create"
             /\ calls'[i].api = "playlist_remove_all_occurrences_of_items" =>
                   <<calls'[i].pid, calls'[i].tid>> \in members
       /\ Len(playlists') = Len(playlists)]_vars

\* the invocation of this step was answered with a usable Retry-After hint
Hinted == Invoked.kind = "http" /\ Invoked.status = 429 /\ RetryAfter(Invoked) > 0

\* C24: the sleep of sp_call after its k-th failed invocation (k = 1..4), when no
\* Retry-After hint is used, lasts min(2^(k-1), 16): the delay starts at 1, doubles
\* after every failed invocation, also one whose sleep used a hint, and never
\* exceeds 16.
C24_DelayDoubles ==
  /\ [][(SpCallStep /\ proc'.status = "running" /\ ~Hinted) =>
          /\ proc'.tries \in 1..4
          /\ proc'.sleeps = Append(proc.sleeps, Min(2 ^ (proc'.tries - 1), 16))]_vars
  /\ []((proc.kind = "call" /\ variant = "file") =>
          /\ proc.delay = Min(2 ^ Len(proc.sleeps), 16)
          /\ proc.delay <= 16
          /\ (proc.tries = 0 => proc.delay = 1))

\* C24 witness: a hinted sleep between sleeps on the delay, which went on doubling.
C24_Witness ==
  /\ proc.kind = "call" /\ variant = "file"
  /\ proc.sleeps = <<1, 3, 4, 8>>
  /\ proc.log[2] = HttpError(429, <<3>>)

\* C25: no identifier whose Ledger entry records a finalizing decision is in the
\* Queue; an identifier with such an entry enters the Queue only by the undo of
\* that decision, which erases the entry in the same step.
C25_FinalizedStaysOut ==
  /\ [](\A x \in DOMAIN seen : seen[x].action \in Finalizing => ~InQueue(x))
  /\ [][\A x \in DOMAIN seen :
          (seen[x].action \in Finalizing /\ InSeq(x, queue')) =>
            (op'.name = "undo" /\ op'.tid = x /\ x \notin DOMAIN seen')]_vars

\* C25 witness: an undo has put a finalized item back at the head and erased its
\* entry, while another item is still finalized.
C25_Witness ==
  /\ op.name = "undo" /\ op.res = "ok" /\ op.undone \in Finalizing
  /\ queue # <<>> /\ Head(queue) = op.tid /\ op.tid \notin DOMAIN seen
  /\ \E x \in DOMAIN seen : seen[x].action \in Finalizing

(* ------------------- a decision and the undo after it ------------------- *)
\* the two playlists of the roles, as a build of the session variant leaves them
RolePlaylists ==
  <<[id |-> 1, name |-> DEFAULT_KEEPERS_PLAYLIST_NAME, owner |-> Me],
    [id |-> 2, name |-> DEFAULT_FAVOURITES_PLAYLIST_NAME, owner |-> Me]>>

\* what a decision finds: the Queue and the Ledger before it
DecisionStart(q, led) == [kind |-> "decision", queue |-> q, seen |-> led]

\* A session that has come to any Queue and any Ledger (no repeated identifier in
\* the Queue, of the Ledger's identifiers only skipped ones in it) and has nothing
\* to undo.  The session variant has run options() and holds the playlist ids.
DecisionInit ==
  /\ variant \in {"file", "session"}
  /\ pc = "idle"
  /\ queue \in ListsOver(Ids)
  /\ seen \in Ledgers
  /\ \A i \in 1..Len(queue) : queue[i] \in DOMAIN seen => seen[queue[i]].action = "skip"
  /\ last_action = NoAction
  /\ LAST = <<>>
  /\ keepers_playlist_id = (IF variant = "session" THEN RolePlaylists[1].id ELSE None)
  /\ favourites_playlist_id = (IF variant = "session" THEN RolePlaylists[2].id ELSE None)
  /\ keepers_playlist_name = DEFAULT_KEEPERS_PLAYLIST_NAME
  /\ favourites_playlist_name = DEFAULT_FAVOURITES_PLAYLIST_NAME
  /\ queue_built_total = Len(queue) + Cardinality(DOMAIN seen)
  /\ stale = <<>>
  /\ playlists = (IF variant = "session" THEN RolePlaylists ELSE <<>>)
  /\ members = {}
  /\ op = Op("init", 0, "ok")
  /\ calls = <<>>
  /\ proc = DecisionStart(queue, seen)

\* one finalizing button on the head
DecideOnce ==
  /\ proc.kind = "decision" /\ op.name = "init"
  /\ \E ts \in Times, fail \in {"none", "call"} :
        \/ FileKeep(ts) \/ FileRemove(ts, fail) \/ FileKeepers(ts, fail)
        \/ FileFavourite(ts, fail)
        \/ SessKeep(ts) \/ SessRemove(ts, fail) \/ SessKeepers(ts, fail)
        \/ SessFavourite(ts, fail)

\* the undo button, pressed right after a decision that succeeded
UndoOnce ==
  /\ proc.kind = "decision" /\ op.name \in {"keep", "remove", "keepers", "favourite"}
  /\ op.res = "ok"
  /\ \E fail \in {"none", "call"} : FileUndo(fail) \/ perform_undo(fail)

DecisionNext == DecideOnce \/ UndoOnce
DecisionSpec == DecisionInit /\ [][DecisionNext]_vars

\* a decision succeeded and the undo that followed it succeeded
RoundTrip ==
  /\ proc.kind = "decision" /\ op.name \in Finalizing /\ op.res = "ok"
  /\ op'.name = "undo" /\ op'.res = "ok"

\* C26 as stated: a successful finalizing decision on the head followed by a
\* successful undo leaves the Queue and the Ledger exactly as they were before the
\* decision, also when the head had been skipped earlier.
C26_RoundTripRestoresAll ==
  [][RoundTrip => (queue' = proc.queue /\ seen' = proc.seen)]_vars

\* C26, amended: the Queue is exactly what it was before the decision; the Ledger
\* is what it was except for the head, which has no entry afterwards: the entry of
\* an earlier skip of the head is erased with the entry of the decision.
C26_RoundTripErasesHeadEntry ==
  [][RoundTrip =>
       /\ queue' = proc.queue
       /\ seen' = DictDel(proc.seen, Head(proc.queue))
       /\ (seen' = proc.seen <=> Head(proc.queue) \notin DOMAIN proc.seen)]_vars

\* C26 witness: the round trip was made on a head that had been skipped earlier.
C26_Witness ==
  /\ proc.kind = "decision" /\ op.name = "undo" /\ op.res = "ok"
  /\ op.undone \in Finalizing
  /\ queue = proc.queue /\ Head(proc.queue) \in DOMAIN proc.seen
  /\ seen = DictDel(proc.seen, Head(proc.queue))

(* ------------------------------ progress -------------------------------- *)
\* lines 478-480: the numbers the progress bar is drawn from
processed == Cardinality(DOMAIN seen)
remaining == Len(queue)
total == IF queue_built_total # 0 THEN queue_built_total ELSE processed + remaining

\* C27: in the file variant processed <= total in every reachable state, where
\* processed is the number of Ledger entries and total the value recorded at the
\* last build, so that the fraction processed / total drawn lies within [0, 1].
C27_ProcessedWithinTotal ==
  [](variant = "file" =>
       /\ processed <= total
       /\ (total # 0 => (0 <= processed /\ processed <= total))
       /\ (queue_built_total = 0 => total = processed + remaining))

\* C27 witness: after a build over a Ledger that was not empty, skips and decisions
\* have brought processed up to the total recorded.
C27_Witness ==
  /\ variant = "file" /\ queue_built_total # 0
  /\ processed = queue_built_total /\ remaining > 0
  /\ \E x \in DOMAIN seen : seen[x].action = "skip"
  /\ \E x \in DOMAIN seen : seen[x].action \in Finalizing

(* --------------------- a queue decided to its end ----------------------- *)
\* the Queue and the Ledger a build has just left
SweepStart(q, led) == [kind |-> "sweep", queue |-> q, seen |-> led]

\* A session right after a build: no identifier of the Queue is in the Ledger, and
\* the file variant has recorded the total of that build.
SweepInit ==
  /\ variant \in {"file", "session"}
  /\ pc = "idle"
  /\ queue \in ListsOver(Ids)
  /\ seen \in Ledgers
  /\ \A i \in 1..Len(queue) : queue[i] \notin DOMAIN seen
  /\ last_action = NoAction
  /\ LAST = <<>>
  /\ keepers_playlist_id = (IF variant = "session" THEN RolePlaylists[1].id ELSE None)
  /\ favourites_playlist_id = (IF variant = "session" THEN RolePlaylists[2].id ELSE None)
  /\ keepers_playlist_name = DEFAULT_KEEPERS_PLAYLIST_NAME
  /\ favourites_playlist_name = DEFAULT_FAVOURITES_PLAYLIST_NAME
  /\ queue_built_total = Len(queue) + Cardinality(DOMAIN seen)
  /\ stale = <<>>
  /\ playlists = (IF variant = "session" THEN RolePlaylists ELSE <<>>)
  /\ members = {}
  /\ op = Op("init", 0, "ok")
  /\ calls = <<>>
  /\ proc = SweepStart(queue, seen)

\* a finalizing button on the head, every remote call succeeding
SweepDecide ==
  /\ proc.kind = "sweep"
  /\ \E ts \in Times :
        \/ FileKeep(ts) \/ FileRemove(ts, "none") \/ FileKeepers(ts, "none")
        \/ FileFavourite(ts, "none")
        \/ SessKeep(ts) \/ SessRemove(ts, "none") \/ SessKeepers(ts, "none")
        \/ SessFavourite(ts, "none")

\* the user goes on deciding while a head is shown
SweepNext == SweepDecide
SweepSpec == SweepInit /\ [][SweepNext]_vars /\ WF_vars(SweepNext)

\* the number of decisions taken since the build
Decided == Len(proc.queue) - Len(queue)

\* C28: from a freshly built Queue of n items, with every remote call succeeding and
\* only finalizing decisions applied, the k-th decision is on the k-th item of the
\* built Queue, the Queue is empty after exactly n decisions, and every item decided
\* has one Ledger entry, of a finalizing decision.
C28_SweepEmptiesQueue ==
  /\ [](proc.kind = "sweep" =>
          /\ Decided \in 0..Len(proc.queue)
          /\ queue = SubSeq(proc.queue, Decided + 1, Len(proc.queue))
          /\ (queue = <<>> <=> Decided = Len(proc.queue))
          /\ DOMAIN seen = DOMAIN proc.seen \cup {proc.queue[i] : i \in 1..Decided}
          /\ \A i \in 1..Decided : seen[proc.queue[i]].action \in Finalizing
          /\ \A x \in DOMAIN proc.seen : seen[x] = proc.seen[x])
  /\ [][proc.kind = "sweep" =>
          /\ op'.name \in Finalizing /\ op'.res = "ok"
          /\ op'.tid = Head(queue) /\ op'.tid = proc.queue[Decided + 1]
          /\ Len(queue') = Len(queue) - 1]_vars
  /\ (proc.kind = "sweep" ~> queue = <<>>)

\* C28 witness: a Queue of every identifier has been decided to its end.
C28_Witness ==
  /\ proc.kind = "sweep" /\ Len(proc.queue) = NumIds /\ queue = <<>>
  /\ \A i \in 1..Len(proc.queue) : seen[proc.queue[i]].action \in Finalizing
  /\ op.tid = proc.queue[Len(proc.queue)]

====
